---- MODULE Spec2Model ----
(***************************************************************************)
(* Model of src/preprocess.py: the EEG preprocessing batch.                *)
(*                                                                         *)
(* Matrices are channels x time, indexed from 0 as in the source:          *)
(* raw_data[c][t] with c in 0..C-1 and t in 0..T-1.  A sample is an        *)
(* integer or the marker NaN.  Whatever a function returns or raises is a  *)
(* record built by Return, Raise or None.                                  *)
(***************************************************************************)
EXTENDS Integers, Sequences, FiniteSets

VARIABLES
    pc,                 \* position of the running function / of main
    args,               \* the arguments of the function applied on its own
    ret,                \* what that function returned or raised
    disk,               \* path -> recording stored under input_dir
    files,              \* main: the .fif paths found by the directory scan
    splits,             \* main: the split assignment, partition -> entries
    split_bands,        \* main: args.split_bands
    mean_std,           \* main: the pair (mean, std) of line 187
    stats_per_subject,  \* main: the dict of lines 200-202
    idx,                \* main: position of the running loop
    saved,              \* main: the arrays written by np.save
    stats_calls         \* main: the file list of every get_stats invocation

vars == <<pc, args, ret, disk, files, splits, split_bands, mean_std,
          stats_per_subject, idx, saved, stats_calls>>
mainVars == <<disk, files, splits, split_bands, mean_std, stats_per_subject,
              idx, saved, stats_calls>>
unitVars == <<args, ret>>

(***************************************************************************)
(* Bounds of the model.                                                    *)
(***************************************************************************)
MaxT == 3
ChannelCounts == {1, 2}
InRange == {1, 3}
OutOfRange == {-500, 500}

(***************************************************************************)
(* Outcomes of a call.                                                     *)
(***************************************************************************)
Return(v) == [kind |-> "return", value |-> v]
Raise(e) == [kind |-> "raise", exc |-> e]
None == [kind |-> "none"]
Pending == [kind |-> "pending"]

(***************************************************************************)
(* Floating point samples.                                                 *)
(***************************************************************************)
NaN == -999999
THRESHOLD == 100

IsNan(x) == x = NaN
Abs(x) == IF x < 0 THEN -x ELSE x
\* x + y on floats: NaN is absorbing
Plus(x, y) == IF IsNan(x) \/ IsNan(y) THEN NaN ELSE x + y
\* x / 2 on floats; the sums interpolate halves are of a sample with itself,
\* so the quotient is exact
Half(x) == IF IsNan(x) THEN NaN ELSE x \div 2

Samples == InRange \cup OutOfRange \cup {NaN}
Matrices ==
    UNION { [0..(C-1) -> [0..(T-1) -> Samples]] : C \in ChannelCounts, T \in 0..MaxT }

NumT(raw_data) == Cardinality(DOMAIN raw_data[0])
\* numpy's index arithmetic: a negative index counts from the end
PyIndex(i, n) == IF i < 0 THEN i + n ELSE i

(***************************************************************************)
(* interpolate                                                             *)
(***************************************************************************)
\* raw_data[abs(raw_data) > 1e2] = np.nan  (abs(NaN) > 1e2 is False)
threshold(raw_data) ==
    [c \in DOMAIN raw_data |->
        [t \in DOMAIN raw_data[c] |->
            LET x == raw_data[c][t]
            IN  IF ~IsNan(x) /\ Abs(x) > THRESHOLD THEN NaN ELSE x]]

\* np.vstack(np.where(np.isnan(raw_data))).transpose(): the <<channel,
\* timepoint>> pairs of the NaN cells in row-major order
nan_indices(raw_data) ==
    LET C == Cardinality(DOMAIN raw_data)
        T == NumT(raw_data)
        cell(k) == <<(k - 1) \div T, (k - 1) % T>>
        all == [k \in 1..(C * T) |-> cell(k)]
        isnan(ct) == IsNan(raw_data[ct[1]][ct[2]])
    IN  SelectSeq(all, isnan)

before(raw_data, channel, timepoint) ==
    raw_data[channel][PyIndex(timepoint - 1, NumT(raw_data))]

\* what a true before/after average would read
after_next(raw_data, channel, timepoint) ==
    IF timepoint + 1 < NumT(raw_data) THEN raw_data[channel][timepoint + 1]
    ELSE raw_data[channel][timepoint]

after(raw_data, channel, timepoint) ==
    raw_data[channel][PyIndex(timepoint - 1, NumT(raw_data))]

fill(raw_data, channel, timepoint) ==
    [raw_data EXCEPT ![channel][timepoint] =
        Half(Plus(before(raw_data, channel, timepoint),
                  after(raw_data, channel, timepoint)))]

RECURSIVE fill_all(_, _)
fill_all(raw_data, indices) ==
    IF indices = <<>> THEN raw_data
    ELSE fill_all(fill(raw_data, Head(indices)[1], Head(indices)[2]), Tail(indices))

interpolate(raw_data) ==
    LET marked == threshold(raw_data)
        filled == fill_all(marked, nan_indices(marked))
        any_nan == nan_indices(filled) # <<>>
    IN  IF any_nan THEN Raise("ResidualNan") ELSE Return(filled)

(***************************************************************************)
(* interpolate applied on its own to every matrix of the bounds.           *)
(***************************************************************************)
MainIdle ==
    /\ files = <<>>
    /\ splits = <<>>
    /\ split_bands = FALSE
    /\ mean_std = Pending
    /\ stats_per_subject = <<>>
    /\ idx = 0
    /\ saved = {}
    /\ stats_calls = <<>>

InitInterpolate ==
    /\ pc = "call"
    /\ args \in Matrices
    /\ ret = Pending
    /\ disk = <<>>
    /\ MainIdle

CallInterpolate ==
    /\ pc = "call"
    /\ pc' = "return"
    /\ ret' = interpolate(args)
    /\ UNCHANGED <<args, mainVars>>

NextInterpolate == CallInterpolate

SpecInterpolate == InitInterpolate /\ [][NextInterpolate]_vars

\* a sample interpolate treats as missing
Missing(x) == IsNan(x) \/ Abs(x) > THRESHOLD
LastT(m) == NumT(m) - 1

\* C3: a channel with two or more consecutive out-of-threshold samples makes
\* interpolate raise ResidualNan
C3_ConsecutiveRaises ==
    (pc = "return" /\ \E c \in DOMAIN args : \E t \in 0..(LastT(args) - 1) :
        /\ ~IsNan(args[c][t]) /\ Abs(args[c][t]) > THRESHOLD
        /\ ~IsNan(args[c][t + 1]) /\ Abs(args[c][t + 1]) > THRESHOLD)
    => ret = Raise("ResidualNan")

\* the only missing sample of the matrix is at <<c, t>>, strictly inside
IsolatedAt(m, c, t) ==
    /\ 0 < t /\ t < LastT(m)
    /\ \A d \in DOMAIN m : \A u \in DOMAIN m[d] :
            Missing(m[d][u]) <=> (d = c /\ u = t)
    /\ ~IsNan(m[c][t])

\* C4: an isolated out-of-threshold sample is replaced by the average of its
\* two neighbours and every other sample is unchanged
C4_IsolatedAveraged ==
    pc = "return" =>
        \A c \in DOMAIN args : \A t \in DOMAIN args[c] :
            IsolatedAt(args, c, t) =>
                /\ ret.kind = "return"
                /\ 2 * ret.value[c][t] = args[c][t - 1] + args[c][t + 1]
                /\ \A d \in DOMAIN args : \A u \in DOMAIN args[d] :
                        (d # c \/ u # t) => ret.value[d][u] = args[d][u]

\* some channel has both its first and its last sample missing
EndsMissing(m) ==
    \E c \in DOMAIN m :
        /\ NumT(m) > 0
        /\ Missing(m[c][0])
        /\ Missing(m[c][LastT(m)])

\* the nearest sample before t that is not missing, searching backwards and
\* wrapping from index 0 to the last index
RECURSIVE NearestBefore(_, _, _)
NearestBefore(row, t, n) ==
    LET p == IF t = 0 THEN n - 1 ELSE t - 1
    IN  IF Missing(row[p]) THEN NearestBefore(row, p, n) ELSE row[p]

\* C9: interpolate raises ResidualNan exactly when some channel has its first
\* and its last sample missing; otherwise the matrix it returns has no missing
\* sample: every missing sample holds the nearest earlier valid sample of its
\* channel (the last one, for a missing run that starts at index 0)
C9_RaisesIffEndsMissing ==
    pc = "return" =>
        /\ (ret = Raise("ResidualNan")) <=> EndsMissing(args)
        /\ ~EndsMissing(args) =>
              /\ ret.kind = "return"
              /\ \A c \in DOMAIN args : \A t \in DOMAIN args[c] :
                    /\ ~Missing(ret.value[c][t])
                    /\ ret.value[c][t] =
                          IF Missing(args[c][t])
                          THEN NearestBefore(args[c], t, NumT(args))
                          ELSE args[c][t]

\* a run of three missing samples starting at index 0 was repaired
C9_Witness ==
    /\ pc = "return"
    /\ ret.kind = "return"
    /\ \E c \in DOMAIN args :
          /\ NumT(args) = 3
          /\ Missing(args[c][0]) /\ Missing(args[c][1])
          /\ ~Missing(args[c][2])
          /\ ret.value[c][0] = args[c][2]
          /\ ret.value[c][1] = args[c][2]

(***************************************************************************)
(* Recordings: what mne.io.read_raw_fif returns for a file.  ch_names is   *)
(* the order in which the file stores its channels; data[k] is the row of  *)
(* ch_names[k + 1].                                                        *)
(***************************************************************************)
CH_NAMES ==
    << "Cz", "Fz", "Fp1", "F7", "F3", "FC1", "C3", "FC5", "FT9", "T7", "CP5",
       "CP1", "P3", "P7", "PO9", "O1", "Pz", "Oz", "O2", "PO10", "P8", "P4",
       "CP2", "CP6", "T8", "FT10", "FC6", "C4", "FC2", "F4", "F8", "Fp2" >>

Range(s) == { s[k] : k \in DOMAIN s }
CanonicalChannels == Range(CH_NAMES)

\* Raw.filter(l_freq, h_freq): the filter is applied to the signal in place;
\* the signal keeps the sequence of the passbands it went through
filter(signal, l_freq, h_freq) ==
    [signal EXCEPT !.filters = Append(@, <<l_freq, h_freq>>)]

\* Raw.get_data(): a copy of the samples as they are now
get_data(signal) == [samples |-> signal.samples, filters |-> signal.filters]

(***************************************************************************)
(* isolate_bands                                                           *)
(***************************************************************************)
bands ==
    << [name |-> "theta", low |-> 4, high |-> 8],
       [name |-> "alpha", low |-> 8, high |-> 12],
       [name |-> "beta", low |-> 13, high |-> 30],
       [name |-> "gamma", low |-> 30, high |-> 60] >>

BandNames == { bands[k].name : k \in DOMAIN bands }

\* the loop of lines 130-140 from its k-th band on: data.filter returns data
\* itself, filtered in place, so the next band filters the filtered signal
RECURSIVE band_loop(_, _, _)
band_loop(data, k, out) ==
    IF k > Len(bands) THEN out
    ELSE LET band == filter(data, bands[k].low, bands[k].high)
         IN  band_loop(band, k + 1, [out EXCEPT ![bands[k].name] = get_data(band)])

isolate_bands(data) ==
    band_loop(data, 1, [band_name \in BandNames |-> None])

(***************************************************************************)
(* open_and_interpolate                                                    *)
(***************************************************************************)
\* raw_data.drop_channels(drop).get_data(): the rows of the channels that are
\* in CH_NAMES, in the order of the file
drop_channels(raw) ==
    LET keep == SelectSeq([k \in DOMAIN raw.ch_names |-> k],
                          LAMBDA k : raw.ch_names[k] \in CanonicalChannels)
    IN  [i \in 0..(Len(keep) - 1) |-> raw.data[keep[i + 1] - 1]]

\* mne.io.RawArray(data, info): the rows are labelled with info's names in
\* order; a row count other than info's is a ValueError
RawArray(data, ch_names) ==
    IF Cardinality(DOMAIN data) # Len(ch_names) THEN Raise("ValueError")
    ELSE Return([ch_names |-> ch_names, samples |-> data, filters |-> <<>>])

read_raw_fif(file) == disk[file]

open_and_interpolate(file, bands_flag) ==
    LET raw_data == drop_channels(read_raw_fif(file))
        interpolated == interpolate(raw_data)
        wrapped == RawArray(interpolated.value, CH_NAMES)
        filtered == filter(wrapped.value, 1, 50)
    IN  IF interpolated.kind = "raise" THEN None
        ELSE IF wrapped.kind = "raise" THEN wrapped
        ELSE IF bands_flag THEN Return(isolate_bands(filtered))
        ELSE Return(get_data(filtered))

(***************************************************************************)
(* open_and_interpolate applied on its own.  The recordings of the bounds: *)
(* the channels Cz and Fz carry any row of RecT samples, every other       *)
(* channel carries a flat row; the file stores its channels in one of the  *)
(* Layouts.                                                                *)
(***************************************************************************)
RecT == 2

Swapped == <<"Fz", "Cz">> \o SubSeq(CH_NAMES, 3, Len(CH_NAMES))
WithExtra == <<"ECG">> \o CH_NAMES \o <<"EOG">>
Short == Tail(CH_NAMES)
Layouts == {CH_NAMES, Swapped, WithExtra, Short}

ProbeRows == [0..(RecT - 1) -> Samples]
FlatRow == [t \in 0..(RecT - 1) |-> 1]

\* the recording that stores its channels in the order of layout, with rows
\* cz and fz for the channels Cz and Fz
Recording(layout, cz, fz) ==
    [ch_names |-> layout,
     data |-> [k \in 0..(Len(layout) - 1) |->
                 IF layout[k + 1] = "Cz" THEN cz
                 ELSE IF layout[k + 1] = "Fz" THEN fz
                 ELSE FlatRow]]

\* os.path.join(input_dir, dir, f"{id}_eeg.fif")
Path(dir, id) == [dir |-> dir, id |-> id]

InitLoader ==
    /\ pc = "call"
    /\ \E layout \in Layouts, cz \in ProbeRows, fz \in ProbeRows :
          disk = [f \in {Path("train", 1)} |-> Recording(layout, cz, fz)]
    /\ \E b \in BOOLEAN : args = [file |-> Path("train", 1), split_bands |-> b]
    /\ ret = Pending
    /\ MainIdle

CallLoader ==
    /\ pc = "call"
    /\ pc' = "return"
    /\ ret' = open_and_interpolate(args.file, args.split_bands)
    /\ UNCHANGED <<args, mainVars>>

NextLoader == CallLoader

SpecLoader == InitLoader /\ [][NextLoader]_vars

\* the matrices a result of open_and_interpolate holds
Returned(r) ==
    IF r.kind # "return" THEN {}
    ELSE IF DOMAIN r.value = BandNames THEN { r.value[b] : b \in BandNames }
    ELSE { r.value }

\* the row a recording stores for the channel called name
StoredRow(raw, name) ==
    raw.data[(CHOOSE k \in DOMAIN raw.ch_names : raw.ch_names[k] = name) - 1]

\* C6: a matrix returned by open_and_interpolate has the 32 canonical
\* channels as rows in the order of CH_NAMES: row i is the (repaired) row the
\* file stores for canonical channel i
C6_CanonicalRows ==
    pc = "return" =>
        \A m \in Returned(ret) :
            /\ DOMAIN m.samples = 0..31
            /\ \A i \in 0..31 :
                  /\ CH_NAMES[i + 1] \in Range(disk[args.file].ch_names)
                  /\ Return([c \in {0} |-> m.samples[i]]) =
                        interpolate([c \in {0} |->
                            StoredRow(disk[args.file], CH_NAMES[i + 1])])

\* C8: with band-splitting, the matrix of a band went through the broadband
\* filter and through that band's filter, and through no other
C8_BandOwnFilter ==
    (pc = "return" /\ args.split_bands /\ ret.kind = "return") =>
        \A k \in DOMAIN bands :
            ret.value[bands[k].name].filters =
                << <<1, 50>>, <<bands[k].low, bands[k].high>> >>

(***************************************************************************)
(* get_stats.  The filtered samples are not computed numerically, so the   *)
(* mean and the std of a concatenation are kept as terms over it.          *)
(***************************************************************************)
\* np.concatenate(tmp, axis=1): an empty list, or an entry that is None
\* instead of a 2-D array, is a ValueError
np_concatenate(tmp) ==
    IF tmp = <<>> \/ \E k \in DOMAIN tmp : tmp[k] = None
    THEN Raise("ValueError")
    ELSE Return([k \in DOMAIN tmp |-> tmp[k].value])

np_mean(data) == [fn |-> "mean", axis |-> 1, of |-> data]
np_std(data) == [fn |-> "std", axis |-> 1, of |-> data]

\* lines 104-107: tmp after the loop over the files from file_list on; an
\* exception of open_and_interpolate ends the loop
RECURSIVE load_loop(_, _)
load_loop(file_list, tmp) ==
    IF file_list = <<>> THEN Return(tmp)
    ELSE LET raw_data == open_and_interpolate(Head(file_list), FALSE)
         IN  IF raw_data.kind = "raise" THEN raw_data
             ELSE load_loop(Tail(file_list), Append(tmp, raw_data))

get_stats(file_list) ==
    LET tmp == load_loop(file_list, <<>>)
        data == np_concatenate(tmp.value)
    IN  IF tmp.kind = "raise" THEN tmp
        ELSE IF data.kind = "raise" THEN data
        ELSE Return([mean |-> np_mean(data.value), std |-> np_std(data.value)])

(***************************************************************************)
(* get_stats applied on its own to the files 1..n of the train directory.  *)
(***************************************************************************)
MaxFiles == 2

StatsRecordings ==
    { Recording(CH_NAMES, cz, FlatRow) : cz \in ProbeRows }
        \cup { Recording(Short, FlatRow, FlatRow) }

InitStats ==
    /\ pc = "call"
    /\ \E n \in 0..MaxFiles :
          /\ disk \in [{ Path("train", id) : id \in 1..n } -> StatsRecordings]
          /\ args = [id \in 1..n |-> Path("train", id)]
    /\ ret = Pending
    /\ MainIdle

CallStats ==
    /\ pc = "call"
    /\ pc' = "return"
    /\ ret' = get_stats(args)
    /\ UNCHANGED <<args, mainVars>>

NextStats == CallStats

SpecStats == InitStats /\ [][NextStats]_vars

\* the recordings of a file list that open_and_interpolate loads
Loadable(file_list) ==
    SelectSeq(file_list, LAMBDA f : open_and_interpolate(f, FALSE).kind = "return")
\* the recordings for which it returns None
Unloadable(file_list) ==
    SelectSeq(file_list, LAMBDA f : open_and_interpolate(f, FALSE) = None)

\* the statistics of the concatenation of the given recordings
StatsOf(file_list) ==
    LET data == [k \in DOMAIN file_list |->
                    open_and_interpolate(file_list[k], FALSE).value]
    IN  [mean |-> np_mean(data), std |-> np_std(data)]

\* C2: get_stats drops the recordings for which open_and_interpolate returned
\* None: when every recording of the list loads or yields None and at least
\* one loads, the result is the statistics of the loadable ones
C2_StatsOfSurvivors ==
    (/\ pc = "return"
     /\ Loadable(args) # <<>>
     /\ Len(Loadable(args)) + Len(Unloadable(args)) = Len(args))
    => ret = Return(StatsOf(Loadable(args)))

(***************************************************************************)
(* z_score on integer samples.  A quotient is kept unreduced.              *)
(***************************************************************************)
\* x / y on floats: numpy divides by zero without raising
np_divide(x, y) ==
    IF y # 0 THEN [kind |-> "finite", num |-> x, den |-> y]
    ELSE IF x = 0 THEN [kind |-> "nan"]
    ELSE [kind |-> "inf", sign |-> IF x > 0 THEN 1 ELSE -1]

z_score(raw_data, mean, std) ==
    Return([c \in DOMAIN raw_data |->
                [t \in DOMAIN raw_data[c] |->
                    np_divide(raw_data[c][t] - mean[c], std[c])]])

ZSamples == {0, 1, 3}
ZMeans == {0, 1}
ZStds == {0, 1, 2}

InitZScore ==
    /\ pc = "call"
    /\ \E C \in ChannelCounts, T \in 1..RecT :
          /\ args \in [raw_data : [0..(C - 1) -> [0..(T - 1) -> ZSamples]],
                       mean : [0..(C - 1) -> ZMeans],
                       std : [0..(C - 1) -> ZStds]]
    /\ ret = Pending
    /\ disk = <<>>
    /\ MainIdle

CallZScore ==
    /\ pc = "call"
    /\ pc' = "return"
    /\ ret' = z_score(args.raw_data, args.mean, args.std)
    /\ UNCHANGED <<args, mainVars>>

NextZScore == CallZScore

SpecZScore == InitZScore /\ [][NextZScore]_vars

\* C7: with a 0 in std, z_score raises a division-by-zero error; it never
\* returns a matrix that holds an Inf or a NaN
C7_ZeroStdRaises ==
    pc = "return" =>
        /\ (\E c \in DOMAIN args.std : args.std[c] = 0)
              => ret = Raise("ZeroDivisionError")
        /\ ret.kind = "return" =>
              \A c \in DOMAIN ret.value : \A t \in DOMAIN ret.value[c] :
                  ret.value[c][t].kind = "finite"

(***************************************************************************)
(* main.  The input directory holds the recordings 1..n, each stored under *)
(* the directory of its partition.  The split files list them by ascending *)
(* id; the directory scan lists the directories, and the files of each     *)
(* directory, in any order (os.listdir).                                   *)
(***************************************************************************)
Partitions == {"train", "val_trial", "val_subject", "test_trial", "test_subject"}
Subjects == {"s1", "s2"}

\* rows of RecT samples: all in range; out of range at the first and at the
\* last index
CleanRow == [t \in 0..(RecT - 1) |-> IF t = 0 THEN 3 ELSE 1]
ResidualRow == [t \in 0..(RecT - 1) |-> IF t \in {0, RecT - 1} THEN -500 ELSE 1]

\* a recording that loads, one that fails with ResidualNan, and one that
\* lacks a canonical channel
Clean == Recording(CH_NAMES, CleanRow, FlatRow)
Residual == Recording(CH_NAMES, ResidualRow, FlatRow)
Truncated == Recording(Short, FlatRow, FlatRow)
MainRecordings == {Clean, Residual, Truncated}

\* the split entry of a recording: its partition and its subject.  main reads
\* subject_id in the entries of the train partition only, so the recordings
\* of the other partitions are all given the first subject
SplitEntries ==
    { [partition |-> "train", subject_id |-> s] : s \in Subjects }
        \cup { [partition |-> p, subject_id |-> "s1"] : p \in Partitions \ {"train"} }

\* lines 152-162: the orders in which the scan can list n files: the files of
\* one directory follow each other, the directories and the files of a
\* directory come in any order
ScanOrders(n, dir) ==
    { order \in [1..n -> 1..n] :
        /\ \A i, j \in 1..n : i # j => order[i] # order[j]
        /\ \A i, j, k \in 1..n :
              (i < j /\ j < k /\ dir[order[i]] = dir[order[k]])
                  => dir[order[j]] = dir[order[i]] }

InitMain ==
    /\ pc = "global_stats"
    /\ \E n \in 0..MaxFiles :
          \E entry \in [1..n -> SplitEntries], rec \in [1..n -> MainRecordings] :
              /\ disk = [f \in { Path(entry[id].partition, id) : id \in 1..n } |->
                            rec[f.id]]
              /\ \E order \in ScanOrders(n, [id \in 1..n |-> entry[id].partition]) :
                    files = [k \in 1..n |->
                                Path(entry[order[k]].partition, order[k])]
              /\ splits = [p \in Partitions |->
                    SelectSeq([id \in 1..n |->
                                  [id |-> id, subject_id |-> entry[id].subject_id]],
                              LAMBDA s : entry[s.id].partition = p)]
    /\ split_bands \in BOOLEAN
    /\ mean_std = Pending
    /\ stats_per_subject = <<>>
    /\ idx = 0
    /\ saved = {}
    /\ stats_calls = <<>>
    /\ args = <<>>
    /\ ret = Pending

\* every file the directory scan found, as a list for statistics
every_file == files

\* line 182: the paths of the entries of splits["train"]
train_files ==
    [k \in DOMAIN splits["train"] |-> Path("train", splits["train"][k].id)]

\* the keys of train_files_per_subject in insertion order: the subjects of
\* splits["train"] in order of first appearance
RECURSIVE first_seen(_, _)
first_seen(entries, seen) ==
    IF entries = <<>> THEN seen
    ELSE first_seen(Tail(entries),
                    IF Head(entries).subject_id \in Range(seen) THEN seen
                    ELSE Append(seen, Head(entries).subject_id))

subject_ids == first_seen(splits["train"], <<>>)

\* lines 192-197: the value of train_files_per_subject[subject]
train_files_per_subject(subject) ==
    LET own == SelectSeq(splits["train"], LAMBDA s : s.subject_id = subject)
    IN  [k \in DOMAIN own |-> Path("train", own[k].id)]

\* lines 185-188
GlobalStats ==
    /\ pc = "global_stats"
    /\ LET r == get_stats(train_files)
       IN  /\ stats_calls' = Append(stats_calls,
                [scope |-> "global", file_list |-> train_files])
           /\ IF r.kind = "raise"
              THEN pc' = "aborted" /\ UNCHANGED <<mean_std, idx>>
              ELSE pc' = "subject_stats" /\ mean_std' = r.value /\ idx' = 1
    /\ UNCHANGED <<unitVars, disk, files, splits, split_bands, stats_per_subject, saved>>

\* lines 200-202: one get_stats call of the dict comprehension
SubjectStats ==
    /\ pc = "subject_stats"
    /\ idx <= Len(subject_ids)
    /\ LET subject_id == subject_ids[idx]
           file_list == train_files_per_subject(subject_id)
           r == get_stats(file_list)
       IN  /\ stats_calls' = Append(stats_calls,
                [scope |-> subject_id, file_list |-> file_list])
           /\ IF r.kind = "raise"
              THEN pc' = "aborted" /\ UNCHANGED <<stats_per_subject, idx>>
              ELSE /\ stats_per_subject' =
                        [s \in DOMAIN stats_per_subject \cup {subject_id} |->
                            IF s = subject_id THEN r.value ELSE stats_per_subject[s]]
                   /\ idx' = idx + 1
                   /\ pc' = pc
    /\ UNCHANGED <<unitVars, disk, files, splits, split_bands, mean_std, saved>>

\* lines 203-205: the comprehension is over, the write loop starts
StartProcessing ==
    /\ pc = "subject_stats"
    /\ idx > Len(subject_ids)
    /\ pc' = "process"
    /\ idx' = 1
    /\ UNCHANGED <<unitVars, disk, files, splits, split_bands, mean_std,
                   stats_per_subject, saved, stats_calls>>

\* line 209, and line 219 for a band
output_file(file, band_name) ==
    [root |-> "output_dir", dir |-> file.dir, id |-> file.id, band |-> band_name]

\* z_score applied to a filtered matrix, as a term
z_data(data, mean, std) == [fn |-> "z_score", raw_data |-> data, mean |-> mean, std |-> std]

\* the statistics of the subject of the file being written, where there are
\* some
subject_stats_of_file ==
    LET own == { s \in DOMAIN stats_per_subject :
                    files[idx] \in Range(train_files_per_subject(s)) }
    IN  IF own = {} THEN mean_std ELSE stats_per_subject[CHOOSE s \in own : TRUE]

\* the (mean, std) lines 218 and 222 pass to z_score
write_stats == mean_std

\* lines 207-223: one iteration of the write loop
ProcessFile ==
    /\ pc = "process"
    /\ idx <= Len(files)
    /\ LET file == files[idx]
           raw_data == open_and_interpolate(file, split_bands)
           mean == write_stats.mean
           std == write_stats.std
       IN  IF raw_data = None
           THEN pc' = pc /\ idx' = idx + 1 /\ saved' = saved
           ELSE IF raw_data.kind = "raise"
           THEN pc' = "aborted" /\ UNCHANGED <<idx, saved>>
           ELSE /\ pc' = pc
                /\ idx' = idx + 1
                /\ saved' = saved \cup
                     IF split_bands
                     THEN { [path |-> output_file(file, band_name),
                             array |-> z_data(raw_data.value[band_name], mean, std)] :
                            band_name \in BandNames }
                     ELSE { [path |-> output_file(file, ""),
                             array |-> z_data(raw_data.value, mean, std)] }
    /\ UNCHANGED <<unitVars, disk, files, splits, split_bands, mean_std,
                   stats_per_subject, stats_calls>>

\* line 225
Finish ==
    /\ pc = "process"
    /\ idx > Len(files)
    /\ pc' = "done"
    /\ UNCHANGED <<unitVars, mainVars>>

NextMain ==
    \/ GlobalStats
    \/ SubjectStats
    \/ StartProcessing
    \/ ProcessFile
    \/ Finish

SpecMain == InitMain /\ [][NextMain]_vars


\* the arrays written for the files of the input list
written_files == { Path(s.path.dir, s.path.id) : s \in saved }
Terminated == pc \in {"done", "aborted"}

\* C1: a recording that fails with ResidualNan does not abort the batch.  In
\* a run in which no recording fails in another way, some recording yields
\* None and some training recording loads, the run ends with the output of
\* every recording that loads written
C1_ResidualNanKeepsBatch ==
    (/\ Terminated
     /\ Unloadable(files) # <<>>
     /\ Len(Loadable(files)) + Len(Unloadable(files)) = Len(files)
     /\ Loadable(train_files) # <<>>)
    => Range(Loadable(files)) \subseteq written_files

\* the partition and the subject the split assignment gives a recording
PartitionOf(id) ==
    CHOOSE p \in Partitions : \E k \in DOMAIN splits[p] : splits[p][k].id = id
SubjectOf(id) ==
    LET p == PartitionOf(id)
    IN  splits[p][CHOOSE k \in DOMAIN splits[p] : splits[p][k].id = id].subject_id

\* C5: every file of every get_stats invocation is a training recording, and
\* a per-subject invocation gets training recordings of its subject only
C5_StatsFromTrainOnly ==
    \A k \in DOMAIN stats_calls :
        \A f \in Range(stats_calls[k].file_list) :
            /\ f \in DOMAIN disk
            /\ PartitionOf(f.id) = "train"
            /\ stats_calls[k].scope # "global" => SubjectOf(f.id) = stats_calls[k].scope

\* the run is over, statistics were computed globally and for a subject, and
\* the output of a recording outside the train partition, which the scan
\* listed first, was written
C5_Witness ==
    /\ pc = "done"
    /\ Len(stats_calls) = 2
    /\ stats_calls[2].file_list # <<>>
    /\ PartitionOf(files[1].id) # "train"
    /\ files[1] \in written_files

\* what holds of the outputs in every state: none before the last
\* statistics computation, and each normalized with the pair of line 187
C10_Outputs ==
    /\ saved # {} =>
          /\ mean_std # Pending
          /\ Len(stats_calls) = 1 + Len(subject_ids)
          /\ DOMAIN stats_per_subject = Range(subject_ids)
    /\ \A s \in saved :
          /\ s.array.mean = mean_std.mean
          /\ s.array.std = mean_std.std

\* C10: no array is written before the global and every per-subject
\* statistics computation is over; every array written is normalized with the
\* global (mean, std), which is the statistics of the training files and
\* never changes once computed
C10_GlobalStatsOnly ==
    [][/\ C10_Outputs'
       /\ mean_std # Pending => mean_std' = mean_std
       /\ (mean_std = Pending /\ mean_std' # Pending) =>
             mean_std' = StatsOf(train_files)]_vars

\* two subjects have statistics of their own, unlike the global ones, and an
\* array of every band was written
C10_Witness ==
    /\ pc = "done"
    /\ split_bands
    /\ Cardinality(DOMAIN stats_per_subject) = 2
    /\ \A s \in DOMAIN stats_per_subject : stats_per_subject[s] # mean_std
    /\ \A b \in BandNames : \E s \in saved : s.path.band = b
====
